---- MODULE Spec2Model ----
(***************************************************************************)
(* Model of plot_precipitation_climatology.py: a command-line pipeline     *)
(*   parse arguments -> open dataset -> ds["pr"] -> seasonal mean ->       *)
(*   convert_pr_units -> create_plot -> savefig                            *)
(* together with the arithmetic it performs on the precipitation values.   *)
(*                                                                         *)
(* The data of a DataArray are IEEE-754 binary64 numbers (NumPy's default  *)
(* floating-point type).  A number is a record [sign, man, exp] standing   *)
(* for (-1)^sign * man * 2^exp, where man is an integer of exactly         *)
(* Precision bits, or 0.  Integers of that size are written as             *)
(* little-endian sequences of limbs in 0..Base-1 (the empty sequence is    *)
(* 0), so that every intermediate result stays a small integer.  Every     *)
(* operation computes the exact result and rounds it once, to nearest,     *)
(* ties to even.  Infinities, NaN and subnormal numbers are outside the    *)
(* model: the values used stay far inside the normal range.                *)
(***************************************************************************)
EXTENDS Integers, Sequences, FiniteSets, TLC

(***************************************************************************)
(* Arbitrary-length naturals.                                              *)
(***************************************************************************)

\* Width of a binary64 significand (52 stored bits and the implicit one).
Precision == 53

\* A limb holds LimbBits bits.
LimbBits == 14

Base == 2 ^ LimbBits

RECURSIVE NatToLimbs(_)
NatToLimbs(n) == IF n = 0 THEN << >> ELSE <<n % Base>> \o NatToLimbs(n \div Base)

RECURSIVE Norm(_)
Norm(a) ==
    IF a = << >> THEN a
    ELSE IF a[Len(a)] = 0 THEN Norm(SubSeq(a, 1, Len(a) - 1))
    ELSE a

RECURSIVE AddC(_, _, _)
AddC(a, b, c) ==
    IF b = << >> /\ c = 0 THEN a
    ELSE IF a = << >> /\ c = 0 THEN b
    ELSE LET x == IF a = << >> THEN 0 ELSE a[1]
             y == IF b = << >> THEN 0 ELSE b[1]
             t == x + y + c
         IN  <<t % Base>> \o AddC(IF a = << >> THEN a ELSE Tail(a),
                                  IF b = << >> THEN b ELSE Tail(b),
                                  t \div Base)

AddBig(a, b) == AddC(a, b, 0)

\* a - b - br, for a >= b + br.
RECURSIVE SubC(_, _, _)
SubC(a, b, br) ==
    IF b = << >> /\ br = 0 THEN a
    ELSE LET y == IF b = << >> THEN 0 ELSE b[1]
             t == a[1] - y - br
         IN  <<t % Base>> \o SubC(Tail(a),
                                  IF b = << >> THEN b ELSE Tail(b),
                                  IF t < 0 THEN 1 ELSE 0)

SubBig(a, b) == Norm(SubC(a, b, 0))

\* a < b, for normalised a and b.
RECURSIVE LessFrom(_, _, _)
LessFrom(a, b, i) ==
    IF i = 0 THEN FALSE
    ELSE IF a[i] # b[i] THEN a[i] < b[i]
    ELSE LessFrom(a, b, i - 1)

LessBig(a, b) ==
    IF Len(a) # Len(b) THEN Len(a) < Len(b) ELSE LessFrom(a, b, Len(a))

\* a * k + c for a small k (k < 2^17).
RECURSIVE MulSmallC(_, _, _)
MulSmallC(a, k, c) ==
    IF a = << >> THEN NatToLimbs(c)
    ELSE LET t == a[1] * k + c
         IN  <<t % Base>> \o MulSmallC(Tail(a), k, t \div Base)

MulSmall(a, k) == Norm(MulSmallC(a, k, 0))

RECURSIVE MulBig(_, _)
MulBig(a, b) ==
    IF a = << >> \/ b = << >> THEN << >>
    ELSE LET hi == MulBig(a, Tail(b))
         IN  AddBig(MulSmall(a, b[1]), IF hi = << >> THEN hi ELSE <<0>> \o hi)

\* Long division of a by a small positive n (n < 2^17), from the top limb.
RECURSIVE DivRec(_, _, _, _, _)
DivRec(a, n, i, rem, q) ==
    IF i = 0 THEN [q |-> Norm(q), r |-> rem]
    ELSE LET cur == rem * Base + a[i]
         IN  DivRec(a, n, i - 1, cur % n, <<cur \div n>> \o q)

DivSmall(a, n) == DivRec(a, n, Len(a), 0, << >>)

\* Number of bits of a small natural.
SmallBitLen(n) == CHOOSE k \in 0..30 : n < 2 ^ k /\ (k = 0 \/ 2 ^ (k - 1) <= n)

BitLen(a) ==
    IF a = << >> THEN 0 ELSE LimbBits * (Len(a) - 1) + SmallBitLen(a[Len(a)])

\* a * 2^k
ShiftLeftBits(a, k) ==
    IF a = << >> THEN a
    ELSE [i \in 1..(k \div LimbBits) |-> 0] \o MulSmall(a, 2 ^ (k % LimbBits))

\* a \div 2^k, and whether a nonzero remainder was dropped.
ShiftRightBits(a, k) ==
    LET w == k \div LimbBits
        d == DivSmall(SubSeq(a, w + 1, Len(a)), 2 ^ (k % LimbBits))
    IN  [q |-> d.q, sticky |-> d.r # 0 \/ \E i \in 1..w : a[i] # 0]

(***************************************************************************)
(* binary64 arithmetic.                                                    *)
(***************************************************************************)

\* The number (b + f) * 2^e, with 0 <= f < 1 and f # 0 iff sticky, rounded to
\* Precision bits, to nearest, ties to even.  b is normalised; with sticky set,
\* b is longer than Precision bits.
RoundToPrecision(b, sticky, e) ==
    LET L == BitLen(b) IN
    IF L = 0 THEN [man |-> << >>, exp |-> 0]
    ELSE IF L <= Precision
    THEN [man |-> ShiftLeftBits(b, Precision - L), exp |-> e - (Precision - L)]
    ELSE LET d     == L - Precision
             s1    == ShiftRightBits(b, d - 1)
             guard == s1.q[1] % 2
             kept  == DivSmall(s1.q, 2).q
             rest  == sticky \/ s1.sticky
             up    == guard = 1 /\ (rest \/ kept[1] % 2 = 1)
             inc   == IF up THEN AddBig(kept, <<1>>) ELSE kept
         IN  IF BitLen(inc) > Precision
             THEN [man |-> DivSmall(inc, 2).q, exp |-> e + d + 1]
             ELSE [man |-> inc, exp |-> e + d]

MkFloat(s, r) == [sign |-> IF r.man = << >> THEN 0 ELSE s, man |-> r.man, exp |-> r.exp]

\* float(n) for a natural n; exact below 2^Precision.
FromNat(n) == MkFloat(0, RoundToPrecision(NatToLimbs(n), FALSE, 0))

FNeg(x) == MkFloat(1 - x.sign, x)

\* x * y
FMul(x, y) ==
    MkFloat((x.sign + y.sign) % 2,
            RoundToPrecision(MulBig(x.man, y.man), FALSE, x.exp + y.exp))

\* x + y
FAdd(x, y) ==
    IF x.man = << >> THEN y
    ELSE IF y.man = << >> THEN x
    ELSE LET e == IF x.exp < y.exp THEN x.exp ELSE y.exp
             a == ShiftLeftBits(x.man, x.exp - e)
             b == ShiftLeftBits(y.man, y.exp - e)
         IN  IF x.sign = y.sign
             THEN MkFloat(x.sign, RoundToPrecision(AddBig(a, b), FALSE, e))
             ELSE IF LessBig(a, b)
             THEN MkFloat(y.sign, RoundToPrecision(SubBig(b, a), FALSE, e))
             ELSE MkFloat(x.sign, RoundToPrecision(SubBig(a, b), FALSE, e))

\* x / n for a positive integer n < 2^17 (n converts to binary64 exactly).
FDivNat(x, n) ==
    LET s == SmallBitLen(n) + 2
        d == DivSmall(ShiftLeftBits(x.man, s), n)
    IN  MkFloat(x.sign, RoundToPrecision(d.q, d.r # 0, x.exp - s))


(***************************************************************************)
(* Values of the program.                                                  *)
(***************************************************************************)

\* An optional value: None is the empty sequence, Some(x) is <<x>>.
None == << >>
Some(x) == <<x>>
IsNone(o) == o = << >>
Get(o) == o[1]

\* d[k] = v on a dict (a function from keys to values).
SetItem(d, k, v) == [x \in (DOMAIN d) \cup {k} |-> IF x = k THEN v ELSE d[x]]

EmptyDict == [x \in {} |-> ""]

\* choices=['DJF', 'MAM', 'JJA', 'SON']
SeasonChoices == {"DJF", "MAM", "JJA", "SON"}

\* The label xarray's "time.season" gives a month.
SeasonOf(month) ==
    IF month \in {12, 1, 2} THEN "DJF"
    ELSE IF month \in {3, 4, 5} THEN "MAM"
    ELSE IF month \in {6, 7, 8} THEN "JJA"
    ELSE "SON"

\* Seconds in a day, the factor of convert_pr_units.
SecondsPerDay == 86400

\* Grid points of every array (latitude x longitude, flattened).
NGrid == 2

Grid == 1..NGrid

(***************************************************************************)
(* convert_pr_units(da)                                                    *)
(***************************************************************************)

\* Variant: the factor of a conversion to mm per hour.
ScaleDataHourly(data) ==
    [s \in DOMAIN data |-> [g \in DOMAIN data[s] |-> FMul(data[s][g], FromNat(3600))]]

\* da.data * 86400: every element times float(86400).
ScaleData(data) ==
    [s \in DOMAIN data |-> [g \in DOMAIN data[s] |-> FMul(data[s][g], FromNat(SecondsPerDay))]]

\* Variant: the conversion leaves its argument alone and returns a new array.
ConvertPrUnitsCopy(h, da) ==
    LET ref == Cardinality(DOMAIN h) + 1
    IN  [heap |-> [r \in (DOMAIN h) \cup {ref} |->
                     IF r = ref
                     THEN [data  |-> ScaleData(h[da].data),
                           attrs |-> SetItem(h[da].attrs, "units", "mm/day")]
                     ELSE h[r]],
         ret  |-> ref]

\* Variant: the conversion skips an array whose units are "mm/day" already.
ConvertPrUnitsIdempotent(h, da) ==
    IF "units" \in DOMAIN h[da].attrs /\ h[da].attrs["units"] = "mm/day"
    THEN [heap |-> h, ret |-> da]
    ELSE [heap |-> [h EXCEPT ![da] = [data  |-> ScaleData(h[da].data),
                                      attrs |-> SetItem(h[da].attrs, "units", "mm/day")]],
          ret  |-> da]

\* The heap after the call, and the reference returned: da itself.
ConvertPrUnits(h, da) ==
    [heap |-> [h EXCEPT ![da] = [data  |-> ScaleData(h[da].data),
                                 attrs |-> SetItem(h[da].attrs, "units", "mm/day")]],
     ret  |-> da]

(***************************************************************************)
(* ds["pr"].groupby("time.season").mean("time", keep_attrs=True)           *)
(***************************************************************************)

\* Indices of the time steps of season s, in time order.
RECURSIVE StepsOf(_, _, _)
StepsOf(time, s, i) ==
    IF i > Len(time) THEN << >>
    ELSE (IF SeasonOf(time[i]) = s THEN <<i>> ELSE << >>) \o StepsOf(time, s, i + 1)

\* Sum of values[steps[k]][g] over k, accumulated in time order (a reduction
\* along the leading axis adds one time step after the other).
RECURSIVE SumSteps(_, _, _, _)
SumSteps(values, steps, g, k) ==
    IF k = 1 THEN values[steps[1]][g]
    ELSE FAdd(SumSteps(values, steps, g, k - 1), values[steps[k]][g])

\* Variant: the seasonal total instead of the seasonal mean.
SumOnly(values, steps, g) == SumSteps(values, steps, g, Len(steps))

MeanSteps(values, steps, g) ==
    FDivNat(SumSteps(values, steps, g, Len(steps)), Len(steps))

\* One entry per season that has time steps; the variable's attrs are kept.
GroupbySeasonMean(var) ==
    LET present == {SeasonOf(var.time[i]) : i \in 1..Len(var.time)}
    IN  [data  |-> [s \in present |->
                      [g \in Grid |-> MeanSteps(var.data, StepsOf(var.time, s, 1), g)]],
         attrs |-> var.attrs]

(***************************************************************************)
(* create_plot(clim, model, season, gridlines, levels)                     *)
(***************************************************************************)

\* Contour levels are multiples of 0.5 and are written in halves: 3 is 1.5.
ArangeStart == 0

\* 13.5
ArangeStop == 27

\* 1.5
ArangeStep == 3

\* Variant: a range that includes its stop value.
ArangeInclusive(start, stop, step) ==
    [i \in 1..((stop - start) \div step + 1) |-> start + (i - 1) * step]

\* np.arange(start, stop, step): ceil((stop - start) / step) values from start.
Arange(start, stop, step) ==
    LET n == -((start - stop) \div step)
    IN  [i \in 1..(IF n > 0 THEN n ELSE 0) |-> start + (i - 1) * step]

\* "not levels": None and the empty list are both false.
NotLevels(levels) == IsNone(levels) \/ Get(levels) = << >>

\* if not levels: levels = np.arange(0, 13.5, 1.5)
LevelsOrDefault(levels) ==
    IF NotLevels(levels) THEN Arange(ArangeStart, ArangeStop, ArangeStep)
    ELSE Get(levels)

\* Variant: a selection that falls back to the first entry when the label is
\* missing.
SelOrFirst(da, season) ==
    IF season \in DOMAIN da.data THEN Some(da.data[season])
    ELSE Some(da.data[CHOOSE s \in DOMAIN da.data : TRUE])

\* clim.sel(season=season): the entry with that label; KeyError without one.
Sel(da, season) ==
    IF season \in DOMAIN da.data THEN Some(da.data[season]) ELSE None

\* contourf raises ValueError for fewer than two levels or levels that do
\* not increase.
LevelsValid(lv) ==
    Len(lv) >= 2 /\ \A i \in 1..(Len(lv) - 1) : lv[i] < lv[i + 1]

NewFigure ==
    [projection |-> "PlateCarree(central_longitude=180)",
     contour    |-> None,
     coastlines |-> FALSE,
     gridlines  |-> FALSE,
     title      |-> None]

\* The figure create_plot leaves, the value of its local variable levels, and
\* whether it returned (ok) or raised.
CreatePlotResult(da, model, season, gridlines, levels) ==
    LET lv    == LevelsOrDefault(levels)
        slice == Sel(da, season)
    IN  IF IsNone(slice) \/ ~LevelsValid(lv)
        THEN [ok |-> FALSE, levels |-> lv, fig |-> NewFigure]
        ELSE [ok  |-> TRUE,
              levels |-> lv,
              fig |-> [projection |-> NewFigure.projection,
                       contour    |-> Some([data   |-> Get(slice),
                                            levels |-> lv,
                                            extend |-> "max",
                                            label  |-> da.attrs["units"]]),
                       coastlines |-> TRUE,
                       gridlines  |-> gridlines,
                       title      |-> Some(<<model, " precipitation climatology (",
                                             season, ")">>)]]

(***************************************************************************)
(* The command line and argparse.                                          *)
(***************************************************************************)

\* float(token) in halves; None for a token float() rejects.
ParseFloat(tok) ==
    CASE tok = "0"   -> Some(0)
      [] tok = "1.5" -> Some(3)
      [] tok = "5"   -> Some(10)
      [] tok = "10"  -> Some(20)
      [] OTHER       -> None

\* Variant: a season positional without choices.
AnySeasonAccepted(season) == TRUE

\* The season positional is checked against choices.
SeasonAccepted(season) == season \in SeasonChoices

\* --cbar_levels, type=float, nargs='*', default=None.
LevelsAccepted(opt) ==
    IsNone(opt) \/ \A i \in 1..Len(Get(opt)) : ~IsNone(ParseFloat(Get(opt)[i]))

ParseLevels(opt) ==
    IF IsNone(opt) THEN None
    ELSE Some([i \in 1..Len(Get(opt)) |-> Get(ParseFloat(Get(opt)[i]))])

\* The Namespace parse_args returns.
ParseArgsResult(cmd) ==
    [pr_file     |-> cmd.pr_file,
     season      |-> cmd.season,
     output_file |-> cmd.output_file,
     gridlines   |-> cmd.gridlines,
     cbar_levels |-> ParseLevels(cmd.cbar_levels)]

(***************************************************************************)
(* The run.                                                                *)
(***************************************************************************)

VARIABLES
    argv,            \* the command line
    inputFile,       \* the dataset stored at pr_file, None when there is no file
    outputWritable,  \* whether output_file can be written
    pc,              \* the statement to execute next
    inargs,          \* the parsed Namespace
    ds,              \* main's ds
    prVar,           \* ds["pr"]
    heap,            \* the DataArray objects, by reference
    clim,            \* main's clim: a reference into heap, 0 while unbound
    model,           \* ds.attrs["source_id"]
    fig,             \* matplotlib's current figure
    plotLevels,      \* create_plot's local variable levels at the contourf call
    outputFile,      \* the image written at output_file
    exitStatus,      \* the exit status of the process
    stages,          \* the statements executed so far, in order
    da,              \* a caller's reference to an array it passes to convert_pr_units
    ret,             \* the reference the last call of convert_pr_units returned
    orig,            \* the array da refers to, as it was before the first call
    calls            \* number of calls of convert_pr_units on da

vars == <<argv, inputFile, outputWritable, pc, inargs, ds, prVar, heap, clim, model,
          fig, plotLevels, outputFile, exitStatus, stages, da, ret, orig, calls>>

env == <<argv, inputFile, outputWritable>>

caller == <<da, ret, orig, calls>>

\* Statements of the script in program order: parse_args, then main's body.
StageOrder ==
    <<"parse_args", "open_dataset", "extract_pr", "groupby_mean",
      "convert_pr_units", "source_id", "create_plot", "savefig">>

\* Variant: the plot is made from the unconverted climatology.
NextStageWithoutConversion(stage) ==
    CASE stage = "parse_args"   -> "open_dataset"
      [] stage = "open_dataset" -> "extract_pr"
      [] stage = "extract_pr"   -> "groupby_mean"
      [] stage = "groupby_mean" -> "source_id"
      [] stage = "source_id"    -> "create_plot"
      [] stage = "create_plot"  -> "savefig"
      [] OTHER                  -> "exit"

\* The statement that follows a statement that completed; the script ends
\* after savefig.
NextStage(stage) ==
    LET i == CHOOSE k \in 1..Len(StageOrder) : StageOrder[k] = stage
    IN  IF i = Len(StageOrder) THEN "exit" ELSE StageOrder[i + 1]

\* Exit status of argparse's error().
ArgparseErrorStatus == 2

\* Exit status of an uncaught exception.
UncaughtExceptionStatus == 1

\* Variant: the exception is caught and the run goes on.
AfterRaiseSwallowed(stage) ==
    [pc     |-> NextStage(stage),
     status |-> IF NextStage(stage) = "exit" THEN Some(0) ELSE None]

\* Where the run goes when a statement raises: nothing catches it, the
\* process ends.
AfterRaise(stage) ==
    [pc     |-> "exit",
     status |-> Some(IF stage = "parse_args" THEN ArgparseErrorStatus
                     ELSE UncaughtExceptionStatus)]

\* Where the run goes when a statement completes.
AfterReturn(stage) ==
    [pc     |-> NextStage(stage),
     status |-> IF NextStage(stage) = "exit" THEN Some(0) ELSE None]

\* The control part of a step of statement `stage`.
Step(stage, ok) ==
    LET to == IF ok THEN AfterReturn(stage) ELSE AfterRaise(stage)
    IN  /\ pc = stage
        /\ pc' = to.pc
        /\ exitStatus' = to.status
        /\ stages' = Append(stages, stage)

\* args = parser.parse_args()
ParseArgs ==
    LET ok == SeasonAccepted(argv.season) /\ LevelsAccepted(argv.cbar_levels)
    IN  /\ Step("parse_args", ok)
        /\ inargs' = IF ok THEN Some(ParseArgsResult(argv)) ELSE None
        /\ UNCHANGED <<env, ds, prVar, heap, clim, model, fig, plotLevels,
                       outputFile, caller>>

\* ds = xr.open_dataset(inargs.pr_file)
OpenDataset ==
    /\ Step("open_dataset", ~IsNone(inputFile))
    /\ ds' = inputFile
    /\ UNCHANGED <<env, inargs, prVar, heap, clim, model, fig, plotLevels,
                   outputFile, caller>>

\* ds["pr"]
ExtractPr ==
    LET ok == "pr" \in DOMAIN Get(ds).data_vars
    IN  /\ Step("extract_pr", ok)
        /\ prVar' = IF ok THEN Some(Get(ds).data_vars["pr"]) ELSE None
        /\ UNCHANGED <<env, inargs, ds, heap, clim, model, fig, plotLevels,
                       outputFile, caller>>

\* clim = <ds["pr"]>.groupby("time.season").mean("time", keep_attrs=True)
GroupbyMean ==
    LET ref == Cardinality(DOMAIN heap) + 1
    IN  /\ Step("groupby_mean", TRUE)
        /\ heap' = [r \in (DOMAIN heap) \cup {ref} |->
                      IF r = ref THEN GroupbySeasonMean(Get(prVar)) ELSE heap[r]]
        /\ clim' = ref
        /\ UNCHANGED <<env, inargs, ds, prVar, model, fig, plotLevels,
                       outputFile, caller>>

\* clim = convert_pr_units(clim)
ConvertUnits ==
    LET r == ConvertPrUnits(heap, clim)
    IN  /\ Step("convert_pr_units", TRUE)
        /\ heap' = r.heap
        /\ clim' = r.ret
        /\ UNCHANGED <<env, inargs, ds, prVar, model, fig, plotLevels,
                       outputFile, caller>>

\* ds.attrs["source_id"], the second argument of the call of create_plot
LookupSourceId ==
    LET ok == "source_id" \in DOMAIN Get(ds).attrs
    IN  /\ Step("source_id", ok)
        /\ model' = IF ok THEN Some(Get(ds).attrs["source_id"]) ELSE None
        /\ UNCHANGED <<env, inargs, ds, prVar, heap, clim, fig, plotLevels,
                       outputFile, caller>>

\* create_plot(clim, <source_id>, inargs.season, gridlines=..., levels=...)
CreatePlot ==
    LET a == Get(inargs)
        r == CreatePlotResult(heap[clim], Get(model), a.season, a.gridlines,
                              a.cbar_levels)
    IN  /\ Step("create_plot", r.ok)
        /\ fig' = Some(r.fig)
        /\ plotLevels' = Some(r.levels)
        /\ UNCHANGED <<env, inargs, ds, prVar, heap, clim, model, outputFile, caller>>

\* dpi=200
Dpi == 200

\* plt.savefig(inargs.output_file, dpi=200, bbox_inches="tight", facecolor="white")
SaveFig ==
    /\ Step("savefig", outputWritable)
    /\ outputFile' = IF outputWritable
                     THEN Some([figure |-> Get(fig), dpi |-> Dpi,
                                bbox_inches |-> "tight", facecolor |-> "white"])
                     ELSE None
    /\ UNCHANGED <<env, inargs, ds, prVar, heap, clim, model, fig, plotLevels, caller>>

\* A caller runs  ret = convert_pr_units(da)  on an array it holds.
MaxCalls == 2

CallConvert ==
    LET r == ConvertPrUnits(heap, da)
    IN  /\ pc = "caller"
        /\ calls < MaxCalls
        /\ heap' = r.heap
        /\ ret' = r.ret
        /\ calls' = calls + 1
        /\ UNCHANGED <<env, pc, inargs, ds, prVar, clim, model, fig, plotLevels,
                       outputFile, exitStatus, stages, da, orig>>

(***************************************************************************)
(* Inputs.                                                                 *)
(***************************************************************************)

\* 1/86400 as Python computes it.
PerSecond == FDivNat(FromNat(1), SecondsPerDay)

\* Months of n time steps that start in month `start` and advance by `stride`
\* months (0: all steps within one month).
TimeAxis(start, stride, n) ==
    [i \in 1..n |-> ((start - 1 + stride * (i - 1)) % 12) + 1]

\* A precipitation variable over a time axis: the constant field 1/86400
\* with a units attribute, or a field that varies with month and grid point
\* and carries no attributes.
PrVariable(time, kind) ==
    [time  |-> time,
     data  |-> [t \in 1..Len(time) |->
                  [g \in Grid |->
                     IF kind = "const" THEN PerSecond
                     ELSE FDivNat(FromNat(time[t] + 3 * g), SecondsPerDay)]],
     attrs |-> IF kind = "const" THEN [units |-> "kg m-2 s-1"] ELSE EmptyDict]

Dataset(name, var, attrs) == [data_vars |-> [n \in {name} |-> var], attrs |-> attrs]

\* Longest time axis of the datasets combined with every command line.
MaxSteps == 4

\* Longest time axis of the constant datasets.
MaxConstSteps == 16

TimeAxes == {TimeAxis(start, stride, n) : start \in {1, 12}, stride \in {1, 3}, n \in 1..MaxSteps}

InputFiles ==
    {None,
     Some(Dataset("tas", PrVariable(TimeAxis(1, 1, MaxSteps), "const"),
                  [source_id |-> "ACCESS-CM2"])),
     Some(Dataset("pr", PrVariable(TimeAxis(1, 1, MaxSteps), "const"), EmptyDict))}
    \cup {Some(Dataset("pr", PrVariable(time, kind), [source_id |-> "ACCESS-CM2"])) :
            time \in TimeAxes, kind \in {"const", "varied"}}

ConstInputFiles ==
    {Some(Dataset("pr", PrVariable(TimeAxis(1, 0, n), "const"),
                  [source_id |-> "TESTMODEL"])) : n \in 1..MaxConstSteps}

\* Values of --cbar_levels: absent, no value, and lists of tokens.
LevelArgs ==
    {None, Some(<< >>), Some(<<"0", "5", "10">>), Some(<<"10", "5">>),
     Some(<<"0", "high">>), Some(<<"1.5">>)}

CommandLine(season, gridlines, levels) ==
    [pr_file     |-> "pr.nc",
     season      |-> season,
     output_file |-> "plot.png",
     gridlines   |-> gridlines,
     cbar_levels |-> levels]

\* The state of a process that has not run a statement yet.
Fresh ==
    /\ inargs = None
    /\ ds = None
    /\ prVar = None
    /\ clim = 0
    /\ model = None
    /\ fig = None
    /\ plotLevels = None
    /\ outputFile = None
    /\ exitStatus = None
    /\ stages = << >>

Init ==
    /\ \/ /\ argv \in {CommandLine(s, g, l) :
                         s \in SeasonChoices \cup {"WIN"}, g \in BOOLEAN, l \in LevelArgs}
          /\ inputFile \in InputFiles
          /\ outputWritable \in BOOLEAN
       \/ /\ argv = CommandLine("DJF", FALSE, None)
          /\ inputFile \in ConstInputFiles
          /\ outputWritable = TRUE
    /\ pc = "parse_args"
    /\ Fresh
    /\ heap = << >>
    /\ da = 0
    /\ ret = 0
    /\ orig = [data |-> << >>, attrs |-> EmptyDict]
    /\ calls = 0

Next ==
    \/ ParseArgs
    \/ OpenDataset
    \/ ExtractPr
    \/ GroupbyMean
    \/ ConvertUnits
    \/ LookupSourceId
    \/ CreatePlot
    \/ SaveFig

Spec == Init /\ [][Next]_vars

(***************************************************************************)
(* A caller of convert_pr_units.                                           *)
(***************************************************************************)

Samples ==
    <<FromNat(0), FromNat(1), PerSecond, FDivNat(FromNat(1), 7),
      FNeg(FDivNat(FromNat(7), 5)), FromNat(3)>>

SeasonIndex(s) ==
    CASE s = "DJF" -> 0 [] s = "MAM" -> 1 [] s = "JJA" -> 2 [] OTHER -> 3

\* A climatology over the seasons of S: one sample everywhere, or samples
\* that change with season and grid point.
ArrayData(S, kind, o) ==
    [s \in S |->
       [g \in Grid |->
          Samples[IF kind = "const" THEN o
                  ELSE ((o + SeasonIndex(s) + g) % Len(Samples)) + 1]]]

ArrayAttrs ==
    {EmptyDict,
     [units |-> "kg m-2 s-1", long_name |-> "Precipitation"],
     [units |-> "mm/day"]}

CallerInit ==
    /\ argv = CommandLine("DJF", FALSE, None)
    /\ inputFile = None
    /\ outputWritable = FALSE
    /\ pc = "caller"
    /\ Fresh
    /\ \E S \in {SeasonChoices, {"DJF", "JJA"}}, kind \in {"const", "varied"},
          o \in 1..Len(Samples), attrs \in ArrayAttrs :
          /\ heap = <<[data |-> ArrayData(S, kind, o), attrs |-> attrs]>>
          /\ orig = [data |-> ArrayData(S, kind, o), attrs |-> attrs]
    /\ da = 1
    /\ ret = 0
    /\ calls = 0

CallerNext == CallConvert

CallerSpec == CallerInit /\ [][CallerNext]_vars

(***************************************************************************)
(* Properties of convert_pr_units, under CallerSpec.                       *)
(***************************************************************************)

Factor == FromNat(SecondsPerDay)

IsZero(x) == x.man = << >>

\* The binary64 number next to x, away from zero.
NextAway(x) ==
    LET m == AddBig(x.man, <<1>>)
    IN  IF BitLen(m) > Precision
        THEN [sign |-> x.sign, man |-> DivSmall(m, 2).q, exp |-> x.exp + 1]
        ELSE [sign |-> x.sign, man |-> m, exp |-> x.exp]

\* x and y are the same number or neighbours: they differ by at most one
\* unit in the last place.
WithinOneUlp(x, y) == x = y \/ NextAway(x) = y \/ NextAway(y) = x

Cells(a) == {<<s, g>> : s \in DOMAIN a.data, g \in Grid}

HasUnits(a, u) == "units" \in DOMAIN a.attrs /\ a.attrs["units"] = u

\* C1: after a call of convert_pr_units the array returned has the elements
\* of the array passed in, each multiplied by 86400, and its units attribute
\* is "mm/day", whatever the units attribute was before and also when there
\* was none.
C1_ConvertScalesAndLabels ==
    calls = 1 =>
        /\ DOMAIN heap[ret].data = DOMAIN orig.data
        /\ \A c \in Cells(orig) :
              heap[ret].data[c[1]][c[2]] = FMul(orig.data[c[1]][c[2]], Factor)
        /\ HasUnits(heap[ret], "mm/day")

\* A call on an array without a units attribute and with a non-zero element.
C1_Witness ==
    /\ calls = 1
    /\ "units" \notin DOMAIN orig.attrs
    /\ \E c \in Cells(orig) : ~IsZero(orig.data[c[1]][c[2]])
    /\ HasUnits(heap[ret], "mm/day")

C8_MutatesInPlace ==
    calls >= 1 =>
        /\ ret = da
        /\ DOMAIN heap = {da}
        /\ HasUnits(heap[da], "mm/day")
        /\ calls = 1 =>
              \A c \in Cells(orig) :
                 heap[da].data[c[1]][c[2]] = FMul(orig.data[c[1]][c[2]], Factor)

\* A call that changed what the caller's reference shows.
C8_Witness ==
    /\ calls = 1
    /\ ret = da
    /\ heap[da].data # orig.data
    /\ HasUnits(orig, "kg m-2 s-1")

(***************************************************************************)
(* Properties of the run, under Spec.                                      *)
(***************************************************************************)

IsPrefix(a, b) == Len(a) <= Len(b) /\ \A i \in 1..Len(a) : a[i] = b[i]

Ran(stage) == \E i \in 1..Len(stages) : stages[i] = stage

Count(stage) == Cardinality({i \in 1..Len(stages) : stages[i] = stage})

\* The seasonal mean of the extracted variable, converted once.
ConvertedMean(s, g) ==
    LET v == Get(prVar)
    IN  FMul(MeanSteps(v.data, StepsOf(v.time, s, 1), g), Factor)

PlotDrawn == ~IsNone(fig) /\ ~IsNone(Get(fig).contour)

\* C2: the statements run in the order parse, open dataset, extract "pr",
\* seasonal mean, convert units, source_id, create_plot, savefig, none of
\* them skipped or repeated: what has run is always an initial part of that
\* order and a run that exits 0 has run all of it.  When create_plot runs,
\* convert_pr_units has run exactly once on the climatology, whose values
\* are the seasonal means times 86400 and whose units are "mm/day"; savefig
\* runs only after create_plot has returned.
C2_StagesInOrder ==
    /\ IsPrefix(stages, StageOrder)
    /\ exitStatus = Some(0) => stages = StageOrder
    /\ Ran("create_plot") =>
          /\ Count("convert_pr_units") = 1
          /\ HasUnits(heap[clim], "mm/day")
          /\ \A c \in Cells(heap[clim]) :
                heap[clim].data[c[1]][c[2]] = ConvertedMean(c[1], c[2])
          /\ PlotDrawn => Get(Get(fig).contour).label = "mm/day"
    /\ Ran("savefig") => PlotDrawn

\* A run that went through every statement and wrote the image.
C2_Witness ==
    /\ exitStatus = Some(0)
    /\ stages = StageOrder
    /\ ~IsNone(outputFile)

\* C3: a command line whose season is not DJF, MAM, JJA or SON is rejected
\* by the argument parser: the run ends with the parser's error status
\* before main is entered, the input file is never opened and no output
\* file is written.
C3_InvalidSeasonRejected ==
    (argv.season \notin {"DJF", "MAM", "JJA", "SON"} /\ pc # "parse_args") =>
        /\ pc = "exit"
        /\ exitStatus = Some(2)
        /\ stages = <<"parse_args">>
        /\ IsNone(inargs)
        /\ IsNone(ds)
        /\ IsNone(outputFile)

\* The season WIN rejected although the input file exists and the output
\* could be written.
C3_Witness ==
    /\ argv.season = "WIN"
    /\ pc = "exit"
    /\ exitStatus = Some(2)
    /\ ~IsNone(inputFile)
    /\ outputWritable

\* C4: create_plot draws exactly the entry of the climatology whose season
\* label is the requested season.  When the climatology has no entry with
\* that label, create_plot fails: nothing is drawn, the run ends with a
\* non-zero status and no output file is saved.
C4_SelectsRequestedSeason ==
    Ran("create_plot") =>
        LET season == Get(inargs).season
            c      == heap[clim]
        IN  /\ PlotDrawn =>
                 /\ season \in DOMAIN c.data
                 /\ Get(Get(fig).contour).data = c.data[season]
            /\ season \notin DOMAIN c.data =>
                 /\ ~PlotDrawn
                 /\ pc = "exit"
                 /\ exitStatus = Some(1)
                 /\ ~Ran("savefig")
                 /\ IsNone(outputFile)

\* create_plot asked for a valid season the data do not cover, everything
\* else being in order.
C4_Witness ==
    /\ Ran("create_plot")
    /\ Get(inargs).season \in SeasonChoices
    /\ Get(inargs).season \notin DOMAIN heap[clim].data
    /\ LevelsValid(Get(plotLevels))
    /\ outputWritable
    /\ exitStatus = Some(1)

\* C5: for every list of values the parser accepts for --cbar_levels, the
\* levels create_plot passes to contourf are that list.
C5_SuppliedLevelsUsed ==
    (~IsNone(plotLevels) /\ ~IsNone(Get(inargs).cbar_levels)) =>
        Get(plotLevels) = Get(Get(inargs).cbar_levels)

\* C6: without --cbar_levels the levels create_plot uses are 0, 1.5, 3, 4.5,
\* 6, 7.5, 9, 10.5, 12 (written in halves): nine values, from 0 to 12, 1.5
\* apart, 13.5 not among them.
C6_DefaultLevels ==
    (~IsNone(plotLevels) /\ IsNone(Get(inargs).cbar_levels)) =>
        /\ Get(plotLevels) = <<0, 3, 6, 9, 12, 15, 18, 21, 24>>
        /\ PlotDrawn => Get(Get(fig).contour).levels = Get(plotLevels)

\* A plot drawn with the default levels.
C6_Witness ==
    /\ PlotDrawn
    /\ IsNone(Get(inargs).cbar_levels)
    /\ Len(Get(Get(fig).contour).levels) = 9

\* The first statement that fails on the inputs of the run, "none" when
\* every statement succeeds.
FailingStage ==
    IF ~(argv.season \in SeasonChoices /\ LevelsAccepted(argv.cbar_levels))
    THEN "parse_args"
    ELSE IF IsNone(inputFile) THEN "open_dataset"
    ELSE IF "pr" \notin DOMAIN Get(inputFile).data_vars THEN "extract_pr"
    ELSE IF "source_id" \notin DOMAIN Get(inputFile).attrs THEN "source_id"
    ELSE IF \/ \A i \in 1..Len(Get(inputFile).data_vars["pr"].time) :
                  SeasonOf(Get(inputFile).data_vars["pr"].time[i]) # argv.season
            \/ ~LevelsValid(LevelsOrDefault(ParseLevels(argv.cbar_levels)))
    THEN "create_plot"
    ELSE IF ~outputWritable THEN "savefig"
    ELSE "none"

\* C9: a failure of any statement ends the run there with a non-zero exit
\* status: no later statement runs and none is retried.  The input file is
\* opened at most once and the output file written at most once, the write
\* is attempted only after every earlier statement succeeded, and the run
\* exits 0 only if the write completed.
C9_FailureEndsRun ==
    /\ IsPrefix(stages, StageOrder)
    /\ Count("open_dataset") <= 1
    /\ Count("savefig") <= 1
    /\ pc # "exit" => IsNone(exitStatus) /\ ~Ran(FailingStage)
    /\ Ran(FailingStage) =>
          /\ pc = "exit"
          /\ stages[Len(stages)] = FailingStage
          /\ exitStatus \in {Some(1), Some(2)}
          /\ IsNone(outputFile)
    /\ Ran("savefig") => FailingStage \in {"savefig", "none"}
    /\ exitStatus = Some(0) => ~IsNone(outputFile) /\ FailingStage = "none"
    /\ ~IsNone(outputFile) => exitStatus = Some(0)

\* A run that failed in the middle, at the lookup of "pr".
C9_Witness ==
    /\ pc = "exit"
    /\ stages = <<"parse_args", "open_dataset", "extract_pr">>
    /\ exitStatus = Some(1)
    /\ outputWritable

\* The input of the end-to-end scenario: "pr" is 1/86400 at every time and
\* grid point, source_id is "TESTMODEL", the season asked for is DJF.
EndToEndInput ==
    /\ argv.season = "DJF"
    /\ ~IsNone(inputFile)
    /\ "pr" \in DOMAIN Get(inputFile).data_vars
    /\ \A t \in 1..Len(Get(inputFile).data_vars["pr"].time) : \A g \in Grid :
          Get(inputFile).data_vars["pr"].data[t][g] = PerSecond
    /\ "source_id" \in DOMAIN Get(inputFile).attrs
    /\ Get(inputFile).attrs["source_id"] = "TESTMODEL"

\* Number of DJF time steps of the input.
WinterSteps == Len(StepsOf(Get(inputFile).data_vars["pr"].time, "DJF", 1))

One == FromNat(1)

\* |x - 1| <= k * 2^-52, for a positive x.
NearOne(x, k) ==
    /\ x.sign = 0
    /\ \/ x.exp = One.exp /\ ~LessBig(AddBig(One.man, NatToLimbs(k)), x.man)
       \/ /\ x.exp = One.exp - 1
          /\ BitLen(AddBig(x.man, NatToLimbs(2 * k))) > Precision

\* C10 as claimed: in the end-to-end scenario the climatology for DJF is
\* exactly 1.0 at every grid point, with units "mm/day", and the image file
\* is written.
C10_ExactlyOne ==
    (EndToEndInput /\ Ran("convert_pr_units")) =>
        /\ \A g \in Grid : heap[clim].data["DJF"][g] = One
        /\ HasUnits(heap[clim], "mm/day")
        /\ pc = "exit" => exitStatus = Some(0) /\ ~IsNone(outputFile)

\* C10 as amended: in the end-to-end scenario, with n DJF time steps, the
\* climatology for DJF is 1.0 at every grid point up to the rounding of the
\* mean and of the two conversions, |value - 1.0| <= (n + 2) * 2^-52, with
\* units "mm/day", and the image file is written with those values.
C10_OneUpToRounding ==
    (EndToEndInput /\ Ran("convert_pr_units")) =>
        /\ "DJF" \in DOMAIN heap[clim].data
        /\ \A g \in Grid : NearOne(heap[clim].data["DJF"][g], WinterSteps + 2)
        /\ HasUnits(heap[clim], "mm/day")
        /\ pc = "exit" =>
              /\ exitStatus = Some(0)
              /\ ~IsNone(outputFile)
              /\ Get(Get(outputFile).figure.contour).data = heap[clim].data["DJF"]

\* The scenario run to its end on fifteen DJF time steps, where the value
\* is not exactly 1.0.
C10_Witness ==
    /\ EndToEndInput
    /\ WinterSteps = 15
    /\ exitStatus = Some(0)
    /\ ~IsNone(outputFile)
    /\ \E g \in Grid : heap[clim].data["DJF"][g] # One
====
